---- MODULE Spec2Model ----
(***************************************************************************)
(* Creative automation pipeline: hero-image resolution, fallback           *)
(* generation, composition-job submission / polling / download.            *)
(*                                                                         *)
(* Strings that the code takes apart (file names, object keys) are         *)
(* modelled as records of token sequences: the tokens of a stem are the    *)
(* parts that the code joins with "_", the extension is what follows the   *)
(* last ".".  Python's None is the empty tuple, a present value v is <<v>>.*)
(***************************************************************************)
EXTENDS Integers, Sequences, FiniteSets, TLC

\* ------------------------------------------------------------------ bounds
MaxLatency == 1       \* seconds a status request may take to answer
MaxImages == 2        \* images in a 'completed' status response

\* ------------------------------------------------------- optional values
None == <<>>
Some(v) == <<v>>
Truthy(x) == x # None

\* ------------------------------------------------------------ file names
FileName(stem, ext) == [stem |-> stem, ext |-> ext]

\* str.lower() on the tokens the model uses
LowerTok(t) ==
    CASE t = "Camp" -> "camp"
      [] t = "Next" -> "next"
      [] t = "P1" -> "p1"
      [] t = "P2" -> "p2"
      [] t = "Hero" -> "hero"
      [] t = "JPG" -> "jpg"
      [] t = "PNG" -> "png"
      [] t = "JPEG" -> "jpeg"
      [] OTHER -> t

Lower(s) == [i \in 1..Len(s) |-> LowerTok(s[i])]

\* asset_manager.py:107
image_extensions == {"jpg", "jpeg", "png", "gif", "webp"}

\* mutant: the all-lowercase pattern is tried first
patterns_lowercase_first(campaign_name, product) ==
    << Lower(campaign_name) \o Lower(product) \o <<"hero">>,
       campaign_name \o product \o <<"hero">>,
       campaign_name \o product \o <<"Hero">> >>

\* asset_manager.py:101-105: the three glob patterns, as the stems they fix
patterns(campaign_name, product) ==
    << campaign_name \o product \o <<"hero">>,
       Lower(campaign_name) \o Lower(product) \o <<"hero">>,
       campaign_name \o product \o <<"Hero">> >>

\* Path.glob("<stem>.*") on a case-sensitive file system, in enumeration order
glob(folder, stem) == SelectSeq(folder, LAMBDA f : f.stem = stem)

\* asset_manager.py:130-135: first match of one pattern with an image suffix
FirstImage(matches) ==
    LET imgs == SelectSeq(matches, LAMBDA f : LowerTok(f.ext) \in image_extensions)
    IN IF imgs = <<>> THEN None ELSE Some(Head(imgs))

RECURSIVE ScanPatterns(_, _)
ScanPatterns(folder, pats) ==
    IF pats = <<>> THEN None
    ELSE LET hit == FirstImage(glob(folder, Head(pats)))
         IN IF hit # None THEN hit ELSE ScanPatterns(folder, Tail(pats))

\* mutant: the scan looks into a folder that does not hold the staged files
find_hero_image_in_wrong_folder(folder, campaign_name, product) ==
    ScanPatterns(<<>>, patterns(campaign_name, product))

\* asset_manager.py:86-138
find_hero_image_by_naming_convention(folder, campaign_name, product) ==
    ScanPatterns(folder, patterns(campaign_name, product))

\* ------------------------------------------------------ remote object store
AssetKey(f) == [ns |-> "assets", stem |-> f.stem, ext |-> f.ext]
\* mutant: the generated object is stored without the product in its name
GeneratedKey_without_product(campaign, product, filename) ==
    [ns |-> "generated", stem |-> campaign \o filename.stem, ext |-> filename.ext]

GeneratedKey(campaign, product, filename) ==
    [ns |-> "generated", stem |-> campaign \o product \o filename.stem,
     ext |-> filename.ext]

\* the store maps each existing key to the provenance of its bytes:
\* "remote" (there before the run), "local" (uploaded from a local file),
\* "generated" (uploaded by the generation client)
\* put_object: creates or overwrites
put_object(store, key, body) ==
    [k \in (DOMAIN store) \cup {key} |-> IF k = key THEN body ELSE store[k]]

\* asset_manager.py:225-246; ok is whether signing succeeded
generate_presigned_url(s3_key, ok) == IF ok THEN Some(s3_key) ELSE None

\* mutant: the upload fails when the object already exists
upload_local_file_to_s3_create_only(store, local_file, s3_key, o) ==
    IF o.put /\ s3_key \notin DOMAIN store
    THEN [ret |-> generate_presigned_url(s3_key, o.presign),
          s3 |-> put_object(store, s3_key, "local")]
    ELSE [ret |-> None, s3 |-> store]

\* asset_manager.py:175-192
upload_local_file_to_s3(store, local_file, s3_key, o) ==
    IF o.put
    THEN [ret |-> generate_presigned_url(s3_key, o.presign),
          s3 |-> put_object(store, s3_key, "local")]
    ELSE [ret |-> None, s3 |-> store]

\* asset_manager.py:269-276: head_object; only ClientError is caught
object_exists_in_s3(store, s3_key, o) ==
    CASE o.head = "ok" -> IF s3_key \in DOMAIN store THEN "True" ELSE "False"
      [] o.head = "client_error" -> "False"
      [] OTHER -> "raise"

\* token-wise prefix test of "generated/<campaign>_<product>_" against a key
HasPrefix(key, ns, stemPrefix) ==
    /\ key.ns = ns
    /\ Len(key.stem) > Len(stemPrefix)
    /\ SubSeq(key.stem, 1, Len(stemPrefix)) = stemPrefix

\* alphabetical rank of the tokens that can follow the prefix
TokRank(t) ==
    CASE t = "hero" -> 1
      [] t = "old" -> 2
      [] OTHER -> 3

\* the order of two keys that share a prefix, by the tokens after it
RECURSIVE ListedBefore(_, _)
ListedBefore(a, b) ==
    IF a = <<>> THEN TRUE
    ELSE IF b = <<>> THEN FALSE
    ELSE IF TokRank(Head(a)) # TokRank(Head(b))
    THEN TokRank(Head(a)) < TokRank(Head(b))
    ELSE ListedBefore(Tail(a), Tail(b))

\* list_objects_v2 answers in key order: the first key under a prefix of
\* n - 1 tokens
FirstListed(keys, n) ==
    CHOOSE k \in keys : \A j \in keys :
        ListedBefore(SubSeq(k.stem, n, Len(k.stem)), SubSeq(j.stem, n, Len(j.stem)))

\* asset_manager.py:140-173
check_for_generated_asset(store, campaign_name, product, o) ==
    LET found == {k \in DOMAIN store :
                     HasPrefix(k, "generated", campaign_name \o product)}
    IN IF ~o.list THEN None
       ELSE IF found # {}
       THEN generate_presigned_url(
                FirstListed(found, Len(campaign_name \o product) + 1), o.presign)
       ELSE None

\* brief_processor.py:89: the sentinel is the plain string "auto"
AUTO == FileName(<<"auto">>, "")

\* mutant: the object named by the brief is uploaded again before it is linked
ensure_asset_in_s3_uploading_again(store, hero_image_filename, input, start, campaign_name, product, o) ==
    LET key == AssetKey(hero_image_filename)
    IN [ret |-> generate_presigned_url(key, o.presign), raised |-> FALSE,
        s3 |-> put_object(store, key, "local"), exit |-> 3, fails |-> {},
        puts |-> <<key>>, heads |-> <<key>>]

\* asset_manager.py:32-84.  start is the staging directory in enumeration
\* order, input the names present in <campaign>/input, o the outcomes of the
\* remote calls.  The result carries, beside the returned link and the new
\* store: raised (an exception left the call), exit (the priority through
\* which the call returned, 5 for a miss), fails (the priorities at which a
\* sub-step failed), puts and heads (the keys of the requests issued).
ensure_asset_in_s3(store, hero_image_filename, input, start, campaign_name, product, o) ==
    LET hero_file == find_hero_image_by_naming_convention(start, campaign_name, product)
        key1 == AssetKey(hero_file[1])
        up1 == upload_local_file_to_s3(store, hero_file[1], key1, o)
        key2 == AssetKey(hero_image_filename)
        up2 == upload_local_file_to_s3(store, hero_image_filename, key2, o)
        exists == object_exists_in_s3(store, key2, o)
        url3 == generate_presigned_url(key2, o.presign)
        url4 == check_for_generated_asset(store, campaign_name, product, o)
        named == hero_image_filename # AUTO
        heads3 == IF named THEN <<key2>> ELSE <<>>
        fails3 == IF named /\ o.head = "client_error" THEN {3} ELSE {}
    IN IF hero_file # None
       THEN [ret |-> up1.ret, raised |-> FALSE, s3 |-> up1.s3, exit |-> 1,
             fails |-> IF up1.ret = None THEN {1} ELSE {},
             puts |-> <<key1>>, heads |-> <<>>]
       ELSE IF named /\ hero_image_filename \in input
       THEN [ret |-> up2.ret, raised |-> FALSE, s3 |-> up2.s3, exit |-> 2,
             fails |-> IF up2.ret = None THEN {2} ELSE {},
             puts |-> <<key2>>, heads |-> <<>>]
       ELSE IF named /\ exists = "raise"
       THEN [ret |-> None, raised |-> TRUE, s3 |-> store, exit |-> 3,
             fails |-> {3}, puts |-> <<>>, heads |-> heads3]
       ELSE IF named /\ exists = "True"
       THEN [ret |-> url3, raised |-> FALSE, s3 |-> store, exit |-> 3,
             fails |-> IF url3 = None THEN {3} ELSE {},
             puts |-> <<>>, heads |-> heads3]
       ELSE IF url4 # None
       THEN [ret |-> url4, raised |-> FALSE, s3 |-> store, exit |-> 4,
             fails |-> fails3, puts |-> <<>>, heads |-> heads3]
       ELSE [ret |-> None, raised |-> FALSE, s3 |-> store, exit |-> 5,
             fails |-> fails3 \cup
                 (IF ~o.list \/ (~o.presign /\ \E k \in DOMAIN store :
                         HasPrefix(k, "generated", campaign_name \o product))
                  THEN {4} ELSE {}),
             puts |-> <<>>, heads |-> heads3]

\* outcomes of the remote calls of one resolver call
ResolveOutcomes ==
    [put : BOOLEAN, presign : BOOLEAN, head : {"ok", "client_error", "error"},
     list : BOOLEAN]

\* ------------------------------------------------------- image generation
\* firefly_generator.py:81
GeneratedFilename == FileName(<<"hero">>, "jpg")

\* asset_manager.py:194-223
upload_generated_image(store, campaign, product, filename, g) ==
    LET s3_key == GeneratedKey(campaign, product, filename)
    IN IF g.put
       THEN [ret |-> generate_presigned_url(s3_key, g.presign),
             s3 |-> put_object(store, s3_key, "generated")]
       ELSE [ret |-> None, s3 |-> store]

\* mutant: bytes are returned whatever the service answered
generate_image_whatever_the_answer(g) == Some("bytes")

\* firefly_generator.py:91-157: the bytes, or None
generate_image(g) == IF g.gen = "ok" THEN Some("bytes") ELSE None

\* mutant: the generation request is sent without a token being held
generate_and_upload_image_without_token_check(store, token, campaign_name, product, g) ==
    LET image_data == generate_image(g)
        up == upload_generated_image(store, campaign_name, product, GeneratedFilename, g)
    IN IF ~Truthy(image_data) THEN [ret |-> None, s3 |-> store, requests |-> 1]
       ELSE [ret |-> up.ret, s3 |-> up.s3, requests |-> 1]

\* mutant: a generation request that brought no bytes is sent a second time
generate_and_upload_image_with_retry(store, token, campaign_name, product, g) ==
    LET image_data == generate_image(g)
        up == upload_generated_image(store, campaign_name, product, GeneratedFilename, g)
    IN IF ~Truthy(token) THEN [ret |-> None, s3 |-> store, requests |-> 0]
       ELSE IF ~Truthy(image_data) THEN [ret |-> None, s3 |-> store, requests |-> 2]
       ELSE [ret |-> up.ret, s3 |-> up.s3, requests |-> 1]

\* firefly_generator.py:54-89.  requests counts the generation requests issued.
generate_and_upload_image(store, token, campaign_name, product, g) ==
    LET image_data == generate_image(g)
        up == upload_generated_image(store, campaign_name, product, GeneratedFilename, g)
    IN IF ~Truthy(token) THEN [ret |-> None, s3 |-> store, requests |-> 0]
       ELSE IF ~Truthy(image_data) THEN [ret |-> None, s3 |-> store, requests |-> 1]
       ELSE [ret |-> up.ret, s3 |-> up.s3, requests |-> 1]

\* non-200 answer, answer without outputs[0].image.presignedUrl, failed
\* download of the bytes, transport exception
GenerateOutcomes ==
    [gen : {"ok", "non200", "no_output", "download_failed", "exception"},
     put : BOOLEAN, presign : BOOLEAN]

\* ------------------------------------------------------- composition jobs
\* bannerbear_composer.py:197
max_wait == 120
\* bannerbear_composer.py:219
poll_intervals == <<3, 5, 5, 10, 10, 15, 15>>
\* bannerbear_composer.py:280
unknown_status_sleep == 10
\* bannerbear_composer.py:284
error_sleep == 10

Min(a, b) == IF a < b THEN a ELSE b

\* mutant: the index is taken from the count itself, one too far
interval_index_off_by_one(count) == Min(count, Len(poll_intervals) - 1)

\* bannerbear_composer.py:274 (0-based, as in the source)
interval_index(count) == Min(count - 1, Len(poll_intervals) - 1)

\* mutant: no sleep between two polls
sleep_time_zero(count) == 0

\* bannerbear_composer.py:275
sleep_time(count) == poll_intervals[interval_index(count) + 1]

\* mutant: both URLs are required instead of one of them
image_is_kept_with_both_urls(image) ==
    /\ (Truthy(image.image_url_png) /\ Truthy(image.image_url_jpg))
    /\ image.height # None
    /\ image.width # None

\* bannerbear_composer.py:248
image_is_kept(image) ==
    /\ (Truthy(image.image_url_png) \/ Truthy(image.image_url_jpg))
    /\ image.height # None
    /\ image.width # None

\* bannerbear_composer.py:239-258: the loop that appends the kept images
RECURSIVE collect_asset_data(_, _)
collect_asset_data(images, asset_data) ==
    IF images = <<>> THEN asset_data
    ELSE collect_asset_data(Tail(images),
            IF image_is_kept(Head(images))
            THEN Append(asset_data,
                    [image_url_png |-> Head(images).image_url_png,
                     image_url_jpg |-> Head(images).image_url_jpg,
                     height |-> Head(images).height[1],
                     width |-> Head(images).width[1]])
            ELSE asset_data)

\* mutant: every format takes the PNG-then-JPG fallback of the last branch
select_asset_url_with_fallback(asset_info, file_format) ==
    LET fmt == LowerTok(file_format)
        wanted == IF fmt = "png" THEN asset_info.image_url_png
                  ELSE asset_info.image_url_jpg
    IN IF Truthy(wanted)
       THEN [url |-> wanted, ext |-> IF fmt = "png" THEN "png" ELSE "jpg"]
       ELSE [url |-> IF Truthy(asset_info.image_url_png)
                     THEN asset_info.image_url_png ELSE asset_info.image_url_jpg,
             ext |-> IF Truthy(asset_info.image_url_png) THEN "png" ELSE "jpg"]

\* bannerbear_composer.py:73-84: the URL and the extension for one variant
select_asset_url(asset_info, file_format) ==
    LET fmt == LowerTok(file_format)
    IN IF fmt \in {"jpg", "jpeg"}
       THEN [url |-> asset_info.image_url_jpg, ext |-> "jpg"]
       ELSE IF fmt = "png"
       THEN [url |-> asset_info.image_url_png, ext |-> "png"]
       ELSE [url |-> IF Truthy(asset_info.image_url_png)
                     THEN asset_info.image_url_png ELSE asset_info.image_url_jpg,
             ext |-> IF Truthy(asset_info.image_url_png) THEN "png" ELSE "jpg"]

\* bannerbear_composer.py:91
output_filename(asset_info, campaign_clean, product, file_extension) ==
    [height |-> asset_info.height, width |-> asset_info.width,
     campaign |-> campaign_clean, product |-> product, ext |-> file_extension]

\* mutant: the tally is compared with >= instead of >
assets_created_or_none(count) == count >= 0

\* bannerbear_composer.py:105
assets_created(count) == count > 0

\* the images a status response can list
Images ==
    [image_url_png : {None, Some("png")}, image_url_jpg : {None, Some("jpg")},
     height : {None, Some(1920), Some(1080)}, width : {None, Some(1080)}]

RECURSIVE SeqsUpTo(_, _)
SeqsUpTo(S, n) ==
    IF n = 0 THEN {<<>>}
    ELSE LET shorter == SeqsUpTo(S, n - 1)
         IN shorter \cup {Append(q, x) : q \in {r \in shorter : Len(r) = n - 1}, x \in S}

\* bannerbear_composer.py:178
submission_accepted(status_code) == status_code \in {201, 202}

\* answers of the submit endpoint: transport failure, or a status code with
\* or without a uid in the body
SubmitOutcomes ==
    [transport : BOOLEAN, status_code : {201, 202, 400}, uid : BOOLEAN]

\* answers of the status endpoint: a transport error (request exception or
\* error status code), or a body with this status
StatusAnswers == {"error", "pending", "processing", "completed", "failed", "queued"}

\* ------------------------------------------------------------ the brief
\* str.upper() on the file formats the model uses
UpperTok(t) ==
    CASE t = "png" -> "PNG"
      [] t = "jpg" -> "JPG"
      [] t = "jpeg" -> "JPEG"
      [] t = "gif" -> "GIF"
      [] t = "Png" -> "PNG"
      [] t = "Jpg" -> "JPG"
      [] t = "jPeG" -> "JPEG"
      [] t = "xyz" -> "XYZ"
      [] OTHER -> t

\* a raw name is a sequence of words and of single characters between them;
\* brief_processor.py:106 writes "_" for a character that is not
\* alphanumeric, "-" or "_"
Separators == {" ", "_", "&"}

RECURSIVE StripLeft(_)
StripLeft(q) ==
    IF q # <<>> /\ Head(q) \in Separators THEN StripLeft(Tail(q)) ELSE q

RECURSIVE StripRight(_)
StripRight(q) ==
    IF q # <<>> /\ q[Len(q)] \in Separators
    THEN StripRight(SubSeq(q, 1, Len(q) - 1)) ELSE q

\* the words between the "_" of a cleaned name (the model holds a name as
\* the sequence of these words)
RECURSIVE SplitWords(_, _)
SplitWords(q, words) ==
    IF q = <<>> THEN words
    ELSE IF Head(q) \in Separators
    THEN SplitWords(Tail(q), Append(words, ""))
    ELSE SplitWords(Tail(q),
            [words EXCEPT ![Len(words)] = Head(q)])

\* brief_processor.py:102-107
clean_filename(filename) ==
    LET stripped == StripRight(StripLeft(filename))
    IN IF stripped = <<>> THEN <<>> ELSE SplitWords(stripped, <<"">>)

\* brief_processor.py:74
valid_formats == {"PNG", "JPEG", "JPG"}

\* mutant: one product is enough
validate_brief_one_product(brief_data) ==
    /\ brief_data.complete
    /\ Len(brief_data.product) >= 1
    /\ UpperTok(brief_data.file_format) \in valid_formats

\* brief_processor.py:50-79; complete: every required field is present and
\* 'product' is a list
validate_brief(brief_data) ==
    /\ brief_data.complete
    /\ Len(brief_data.product) >= 2
    /\ UpperTok(brief_data.file_format) \in valid_formats

\* mutant: a brief without hero_image keeps an empty filename
normalize_brief_data_without_sentinel(brief_data) ==
    [campaign_clean |-> clean_filename(brief_data.campaign),
     product |-> [i \in 1..Len(brief_data.product) |->
                     clean_filename(brief_data.product[i])],
     hero_image |-> IF Truthy(brief_data.hero_image)
                    THEN brief_data.hero_image[1] ELSE FileName(<<>>, ""),
     file_format |-> IF UpperTok(brief_data.file_format) = "JPG" THEN "JPEG"
                     ELSE UpperTok(brief_data.file_format)]

\* brief_processor.py:81-100
normalize_brief_data(brief_data) ==
    [campaign_clean |-> clean_filename(brief_data.campaign),
     product |-> [i \in 1..Len(brief_data.product) |->
                     clean_filename(brief_data.product[i])],
     hero_image |-> IF Truthy(brief_data.hero_image)
                    THEN brief_data.hero_image[1] ELSE AUTO,
     file_format |-> IF UpperTok(brief_data.file_format) = "JPG" THEN "JPEG"
                     ELSE UpperTok(brief_data.file_format)]

\* mutant: the brief is normalized without being validated
process_brief_without_validation(json_file) ==
    Some(normalize_brief_data(json_file))

\* brief_processor.py:14-48; readable: the file opens and holds JSON
process_brief(json_file) ==
    IF json_file.readable /\ validate_brief(json_file)
    THEN Some(normalize_brief_data(json_file))
    ELSE None

\* utils.py:25-43
required_vars ==
    {"AWS_ACCESS_KEY_ID", "AWS_SECRET_ACCESS_KEY", "AWS_S3_BUCKET",
     "ADOBE_CLIENT_ID", "ADOBE_CLIENT_SECRET"}
validate_environment(env) == \A var \in required_vars : env[var]

\* ------------------------------------------------------------------- state
VARIABLES
    json_files,           \* main.py:56: the briefs of START, as they were found
    brief_index,          \* position of the loop of main.py:67 (1-based)
    campaign_data,        \* main.py:72: the normalized brief
    start_folder,         \* START: its files, in enumeration order
    input_folder,         \* <campaign>/input: the names present
    s3,                   \* the bucket: key -> provenance of the bytes
    access_token,         \* FireflyGenerator.access_token
    auth_requests,        \* credential-exchange requests issued in the run
    settings,             \* config/settings.py: which variables are set
    pc,                   \* position of main
    product_index,        \* main.py:98 (0-based)
    hero_image_s3_url,    \* main.py:103/113
    success,              \* main.py:130
    campaign_success,     \* main.py:95
    overall_success,      \* main.py:65
    main_result,          \* what main returned: "running", "True", "False"
    brief_in_start,       \* per brief: its file is still in START
    resolved,             \* the last resolver call: its result record
    firefly_requests,     \* generation requests issued for this product
    submissions,          \* composition jobs submitted for this product
    generated,            \* the last generation call: the answers it got
    submitted,            \* the response to the submission, until the uid is used
    campaign_log,         \* per brief: what main logged, the products whose
                          \* assets were created, the archived copy
    elapsed,              \* time.time() - start_time, whole seconds
    poll_count,           \* bannerbear_composer.py:216
    last_kind,            \* branch taken by the last status answer
    last_sleep,           \* seconds slept after the last status answer
    only_waiting,         \* every answer so far was pending / processing
    only_errors,          \* every answer so far was a transport error
    job_result,           \* how _wait_for_collection_completion ended
    images,               \* bannerbear_composer.py:238, while the call is returning
    asset_data,           \* bannerbear_composer.py:55
    asset_index,          \* position in the download loop (1-based)
    success_count,        \* bannerbear_composer.py:66
    dl_log,               \* per variant of asset_data: what the loop did
    output_files          \* files under <campaign>/output/<product>, for the
                          \* products of the campaign being processed

envVars == <<json_files, brief_index, campaign_data, start_folder, input_folder,
             access_token, auth_requests, settings>>
mainVars == <<pc, product_index, hero_image_s3_url, success, campaign_success,
              overall_success, main_result, brief_in_start>>
pollVars == <<elapsed, poll_count, last_kind, last_sleep, only_waiting,
              only_errors, job_result>>
dlVars == <<images, asset_data, asset_index, success_count, dl_log>>
callVars == <<resolved, generated, submitted>>
vars == <<envVars, s3, mainVars, callVars, firefly_requests, submissions,
          campaign_log, pollVars, dlVars, output_files>>

\* ------------------------------------------------------------- environment
CampaignName == <<"Camp">>
Products == << <<"P1">>, <<"P2">> >>

F_asgiven == FileName(<<"Camp", "P1", "hero">>, "jpg")
F_lower == FileName(<<"camp", "p1", "hero">>, "png")
F_capital == FileName(<<"Camp", "P1", "Hero">>, "JPG")
F_text == FileName(<<"Camp", "P1", "hero">>, "txt")
F_banner == FileName(<<"banner">>, "png")

EmptyStore == [k \in {} |-> "remote"]
StoreWith(keys) == [k \in keys |-> "remote"]

\* folder_manager.py:57
asset_extensions == {"jpg", "jpeg", "png", "gif", "pdf", "ai", "psd"}

InSeq(x, q) == \E i \in 1..Len(q) : q[i] = x

\* folder_manager.py:15-74: the named hero image and the other asset files
\* of START are copied to input
setup_campaign_folders(prior_input, start, hero_image_filename) ==
    prior_input
    \cup (IF hero_image_filename # AUTO /\ InSeq(hero_image_filename, start)
          THEN {hero_image_filename} ELSE {})
    \cup {start[i] : i \in {j \in 1..Len(start) :
                               /\ LowerTok(start[j].ext) \in asset_extensions
                               /\ start[j] # hero_image_filename}}

\* what is remembered of a resolver call; exit 0: no call yet for this product
CallTrace(r) ==
    [ret |-> r.ret, raised |-> r.raised, exit |-> r.exit, fails |-> r.fails,
     puts |-> r.puts, heads |-> r.heads]
NoResolve ==
    [ret |-> None, raised |-> FALSE, exit |-> 0, fails |-> {},
     puts |-> <<>>, heads |-> <<>>]

\* what is remembered of a generation call: whether a token was held, the
\* answer to the generation request, whether the bytes were stored and the
\* link minted
GenerateTrace(token, g) ==
    [called |-> TRUE, token |-> Truthy(token),
     gen |-> IF Truthy(token) THEN g.gen ELSE "none",
     put |-> Truthy(token) /\ g.gen = "ok" /\ g.put,
     presign |-> Truthy(token) /\ g.gen = "ok" /\ g.put /\ g.presign]
NoGenerate ==
    [called |-> FALSE, token |-> FALSE, gen |-> "none", put |-> FALSE,
     presign |-> FALSE]

\* the response to a submission: none, no response at all (the request
\* raised), or a status code and a body with or without a uid
SubmitTrace(c, hero_image_url) ==
    [sent |-> TRUE, image_url |-> hero_image_url, transport |-> c.transport,
     status_code |-> IF c.transport THEN c.status_code ELSE 0,
     uid |-> c.transport /\ c.uid]
NoSubmission ==
    [sent |-> FALSE, image_url |-> None, transport |-> FALSE, status_code |-> 0,
     uid |-> FALSE]

\* main.py:74, 90, 138, 149, 151: the log of one brief
NoLog == [reported |-> "none", completed |-> 0, copied |-> FALSE]

\* the locals of the composer, before a job is submitted
PollIdle ==
    /\ elapsed = 0 /\ poll_count = 0 /\ last_kind = "none" /\ last_sleep = 0
    /\ only_waiting = TRUE /\ only_errors = TRUE /\ job_result = "none"
DlIdle ==
    /\ images = <<>> /\ asset_data = <<>> /\ asset_index = 1 /\ success_count = 0 /\ dl_log = <<>>

\* the locals of a call that returned (or has not started) hold nothing
PollReset ==
    /\ elapsed' = 0 /\ poll_count' = 0 /\ last_kind' = "none" /\ last_sleep' = 0
    /\ only_waiting' = TRUE /\ only_errors' = TRUE /\ job_result' = "none"
DlReset ==
    /\ images' = <<>> /\ asset_data' = <<>> /\ asset_index' = 1 /\ success_count' = 0 /\ dl_log' = <<>>

\* config/settings.py:13-24: the variables the pipeline reads
SettingNames ==
    required_vars \cup {"BANNERBEAR_API_KEY", "BANNERBEAR_COLLECTION_ID"}
AllSet == [var \in SettingNames |-> TRUE]

RawCampaign == <<"Camp">>
RawProducts == << <<"P1">>, <<" ", "P2">> >>

\* a brief file of START; input is what <campaign>/input held before the run
\* (the campaigns of one run have different names)
Brief(campaign, products, hero_image, file_format, input) ==
    [readable |-> TRUE, complete |-> TRUE, campaign |-> campaign,
     product |-> products, hero_image |-> hero_image,
     file_format |-> file_format, input |-> input]

\* briefs that process_brief rejects: not JSON, a field missing, one
\* product only, a format that is neither PNG nor JPEG
Rejected ==
    LET b == Brief(RawCampaign, RawProducts, None, "PNG", {})
    IN {[b EXCEPT !.readable = FALSE], [b EXCEPT !.complete = FALSE],
        [b EXCEPT !.product = << <<"P1">> >>], [b EXCEPT !.file_format = "gif"]}

\* campaign_data while no brief is held (None)
NoData ==
    [campaign_clean |-> <<>>, product |-> <<>>, hero_image |-> AUTO,
     file_format |-> ""]

\* the locals of main that hold nothing yet
MainIdle ==
    /\ product_index = 0 /\ hero_image_s3_url = None /\ success = FALSE
    /\ campaign_success = TRUE /\ overall_success = TRUE
    /\ main_result = "running"
    /\ brief_in_start = [i \in 1..Len(json_files) |-> TRUE]
    /\ resolved = NoResolve /\ firefly_requests = 0 /\ submissions = 0
    /\ generated = NoGenerate /\ submitted = NoSubmission
    /\ campaign_log = [i \in 1..Len(json_files) |-> NoLog]
    /\ PollIdle /\ DlIdle /\ output_files = {}

\* the state of main at line 98, first product, folders set up
InitMain ==
    /\ pc = "resolve" /\ brief_index = 1 /\ auth_requests = 1
    /\ MainIdle

\* main.py:20-29: nothing has run
InitStart ==
    /\ pc = "start" /\ brief_index = 0 /\ campaign_data = NoData
    /\ input_folder = {} /\ access_token = None /\ auth_requests = 0
    /\ MainIdle

\* the environments of the whole-run specification
Environments ==
    { [start |-> <<>>, hero |-> AUTO, prior |-> {}, store |-> EmptyStore],
      [start |-> <<F_asgiven>>, hero |-> AUTO, prior |-> {},
       store |-> StoreWith({GeneratedKey(CampaignName, Products[2], GeneratedFilename)})],
      [start |-> <<>>, hero |-> F_banner, prior |-> {F_banner}, store |-> EmptyStore],
      [start |-> <<>>, hero |-> F_banner, prior |-> {},
       store |-> StoreWith({AssetKey(F_banner)})] }

\* with nothing else in START and an empty bucket: no brief, a rejected
\* brief, or two briefs of which either may be a rejected one; the first
\* names a hero image that is nowhere
BriefLists ==
    LET first == Brief(RawCampaign, RawProducts, Some(F_banner), "PNG", {})
        second == Brief(<<"Next">>, RawProducts, None, "PNG", {})
        unreadable == [first EXCEPT !.readable = FALSE]
    IN {<<>>} \cup {<<b>> : b \in Rejected}
       \cup {<<first, second>>, <<first, unreadable>>, <<unreadable, second>>}

\* one brief in START in each of the environments, or one of BriefLists
Init ==
    /\ \E e \in Environments, fmt \in {"PNG", "jpg"} :
          /\ json_files \in
                {<< Brief(RawCampaign, RawProducts,
                         IF e.hero = AUTO THEN None ELSE Some(e.hero), fmt, e.prior) >>}
                \cup (IF e.start = <<>> /\ e.hero = AUTO /\ fmt = "PNG"
                      THEN BriefLists ELSE {})
          /\ start_folder = e.start
          /\ s3 = e.store
    /\ settings \in [SettingNames -> BOOLEAN]
    /\ InitStart

\* ------------------------------------------------------------------ main
product == campaign_data.product[product_index + 1]

\* main.py:33-65: the environment check, the components, the briefs of START.
\* AssetManager() re-raises what boto3.client raised (asset_manager.py:28-30);
\* FireflyGenerator() asks for the token (firefly_generator.py:18); a START
\* that is missing or holds no brief ends the run with True.
Start ==
    /\ pc = "start"
    /\ \E client_ok \in BOOLEAN, token \in {None, Some("token")} :
         IF ~validate_environment(settings) \/ ~client_ok
         THEN /\ pc' = "done" /\ main_result' = "False"
              /\ UNCHANGED <<access_token, auth_requests, brief_index>>
         ELSE /\ access_token' = token /\ auth_requests' = auth_requests + 1
              /\ IF json_files = <<>>
                 THEN /\ pc' = "done" /\ main_result' = "True"
                      /\ UNCHANGED brief_index
                 ELSE /\ pc' = "brief" /\ brief_index' = 1
                      /\ UNCHANGED main_result
    /\ overall_success' = TRUE
    /\ UNCHANGED <<json_files, campaign_data, start_folder, input_folder, settings,
                   s3, product_index, hero_image_s3_url, success, campaign_success,
                   brief_in_start, resolved, generated, submitted, campaign_log, firefly_requests, submissions,
                   pollVars, dlVars, output_files>>

\* mutant: the run reports success whatever happened to its campaigns
final_status_ignoring_failures(ok) == "True"

\* main.py:156-161
final_status(ok) == IF ok THEN "True" ELSE "False"

\* main.py:67 and 155-161: the next brief, or the result of the run
NextBrief(ok) ==
    IF brief_index < Len(json_files)
    THEN /\ brief_index' = brief_index + 1 /\ pc' = "brief"
         /\ UNCHANGED main_result
    ELSE /\ pc' = "done" /\ main_result' = final_status(ok)
         /\ UNCHANGED brief_index

\* main.py:72-96: the brief is parsed and the campaign folders are set up
ProcessBrief ==
    /\ pc = "brief"
    /\ LET json_file == json_files[brief_index]
           data == process_brief(json_file)
       IN \E setup_ok \in BOOLEAN :
            IF ~Truthy(data)
            THEN /\ campaign_data' = NoData
                 /\ overall_success' = FALSE /\ NextBrief(FALSE)
                 /\ campaign_log' = [campaign_log EXCEPT
                                        ![brief_index].reported = "rejected"]
                 /\ UNCHANGED <<input_folder, output_files, campaign_success>>
            ELSE IF ~setup_ok
            THEN /\ campaign_data' = data[1]
                 /\ overall_success' = FALSE /\ NextBrief(FALSE)
                 /\ campaign_log' = [campaign_log EXCEPT
                                        ![brief_index].reported = "setup_failed"]
                 /\ UNCHANGED <<input_folder, output_files, campaign_success>>
            ELSE /\ campaign_data' = data[1]
                 /\ UNCHANGED campaign_log
                 /\ input_folder' = setup_campaign_folders(json_file.input,
                                        start_folder, data[1].hero_image)
                 /\ output_files' = {}
                 /\ campaign_success' = TRUE /\ pc' = "resolve"
                 /\ UNCHANGED <<overall_success, brief_index, main_result>>
    /\ UNCHANGED <<json_files, start_folder, access_token, auth_requests, settings,
                   s3, product_index, hero_image_s3_url, success, brief_in_start,
                   callVars, firefly_requests, submissions, pollVars, dlVars>>

\* main.py:163-165: an exception anywhere in the run ends it with False
MainRaised ==
    /\ pc' = "done" /\ main_result' = "False"
    /\ UNCHANGED <<product_index, success, campaign_success, overall_success,
                   brief_in_start>>

\* mutant: generation runs whatever the resolver returned
always_generate(url) == TRUE

\* main.py:111
needs_generation(url) == ~Truthy(url)

\* mutant: a link already held is kept for the next product
resolved_link_cached(ret, held) == IF Truthy(held) THEN held ELSE ret

\* main.py:103: the variable takes what the resolver returned, whatever it
\* held from the product before
resolved_link(ret, held) == ret

\* main.py:101-111
Resolve ==
    /\ pc = "resolve"
    /\ \E o \in ResolveOutcomes :
         LET r == ensure_asset_in_s3(s3, campaign_data.hero_image, input_folder,
                     start_folder, campaign_data.campaign_clean, product, o)
         IN /\ resolved' = CallTrace(r)
            /\ s3' = r.s3
            /\ IF r.raised
               THEN MainRaised /\ UNCHANGED hero_image_s3_url
               ELSE /\ hero_image_s3_url' = resolved_link(r.ret, hero_image_s3_url)
                    /\ pc' = IF needs_generation(r.ret) THEN "generate" ELSE "compose"
                    /\ UNCHANGED <<product_index, success, campaign_success,
                                   overall_success, main_result, brief_in_start>>
    /\ UNCHANGED <<envVars, generated, submitted, campaign_log, firefly_requests,
                   submissions, pollVars, dlVars, output_files>>

\* main.py:112-124
Generate ==
    /\ pc = "generate"
    /\ \E g \in GenerateOutcomes :
         LET r == generate_and_upload_image(s3, access_token,
                     campaign_data.campaign_clean, product, g)
         IN /\ s3' = r.s3
            /\ generated' = GenerateTrace(access_token, g)
            /\ firefly_requests' = firefly_requests + r.requests
            /\ hero_image_s3_url' = r.ret
            /\ IF ~Truthy(r.ret)
               THEN /\ campaign_success' = FALSE /\ overall_success' = FALSE
                    /\ pc' = "campaign_end"
               ELSE /\ pc' = "compose"
                    /\ UNCHANGED <<campaign_success, overall_success>>
    /\ UNCHANGED <<envVars, product_index, success, main_result, brief_in_start,
                   resolved, submitted, campaign_log, submissions, pollVars, dlVars,
                   output_files>>

\* mutant: a response without a uid is polled all the same
enters_polling_without_uid(c) ==
    c.transport /\ submission_accepted(c.status_code)

\* bannerbear_composer.py:172-191: the request went through, the code is
\* accepted and the body carries a uid
enters_polling(c) ==
    c.transport /\ submission_accepted(c.status_code) /\ c.uid

\* create_campaign_assets returned False before any download
ComposeFailed ==
    /\ success' = FALSE /\ pc' = "main_check"

\* main.py:130 to bannerbear_composer.py:39-63 and 139-195: the settings
\* checks, the output folder, the submission
Submit ==
    /\ pc = "compose"
    /\ \E mkdir_ok \in BOOLEAN, c \in SubmitOutcomes :
         IF ~settings.BANNERBEAR_API_KEY \/ ~settings.BANNERBEAR_COLLECTION_ID
         THEN ComposeFailed /\ UNCHANGED <<main_result, pollVars, submissions, submitted>>
         ELSE IF ~mkdir_ok
         THEN /\ pc' = "done" /\ main_result' = "False"
              /\ UNCHANGED <<success, pollVars, submissions, submitted>>
         ELSE /\ submissions' = submissions + 1
              /\ submitted' = SubmitTrace(c, hero_image_s3_url)
              /\ IF enters_polling(c)
                 THEN /\ pc' = "poll" /\ PollReset
                      /\ UNCHANGED <<success, main_result>>
                 ELSE ComposeFailed /\ UNCHANGED <<main_result, pollVars>>
    /\ UNCHANGED <<envVars, s3, product_index, hero_image_s3_url, campaign_success,
                   overall_success, brief_in_start, resolved, generated, campaign_log,
                   firefly_requests,
                   dlVars, output_files>>

\* mutant: the loop test lets a request leave at exactly max_wait
budget_left_inclusive(seconds) == seconds <= max_wait

\* bannerbear_composer.py:223
budget_left(seconds) == seconds < max_wait

\* bannerbear_composer.py:223-225: the loop test passes, the request leaves
SendStatusRequest ==
    /\ pc = "poll"
    /\ budget_left(elapsed)
    /\ pc' = "await"
    /\ submitted' = NoSubmission
    /\ UNCHANGED <<envVars, s3, product_index, hero_image_s3_url, success,
                   campaign_success, overall_success, main_result, brief_in_start,
                   resolved, generated, campaign_log, firefly_requests, submissions,
                   pollVars, dlVars, output_files>>

\* bannerbear_composer.py:286-287
PollTimeout ==
    /\ pc = "poll"
    /\ ~budget_left(elapsed)
    /\ job_result' = "timeout"
    /\ ComposeFailed
    /\ UNCHANGED <<envVars, s3, product_index, hero_image_s3_url,
                   campaign_success, overall_success, main_result, brief_in_start,
                   resolved, generated, submitted, campaign_log, firefly_requests, submissions, elapsed, poll_count, last_kind,
                   last_sleep, only_waiting, only_errors, dlVars, output_files>>

\* bannerbear_composer.py:231: every parsed answer counts as a poll
count_poll(count) == count + 1

\* mutant: a transport error ends the wait with a failure instead of a retry
OnTransportErrorGiveUp(now) ==
    /\ elapsed' = now
    /\ last_kind' = "error" /\ last_sleep' = 0
    /\ only_waiting' = FALSE
    /\ job_result' = "failed"
    /\ ComposeFailed
    /\ UNCHANGED <<poll_count, only_errors>>

\* bannerbear_composer.py:282-284: the request or the parsing of its answer
\* raised; poll_count was not reached
OnTransportError(now) ==
    /\ elapsed' = now + error_sleep
    /\ last_kind' = "error" /\ last_sleep' = error_sleep
    /\ only_waiting' = FALSE
    /\ pc' = "poll"
    /\ UNCHANGED <<poll_count, only_errors, job_result, success>>

\* bannerbear_composer.py:272-277
OnWaiting(now) ==
    /\ poll_count' = count_poll(poll_count)
    /\ elapsed' = now + sleep_time(count_poll(poll_count))
    /\ last_kind' = "waiting" /\ last_sleep' = sleep_time(count_poll(poll_count))
    /\ only_errors' = FALSE
    /\ pc' = "poll"
    /\ UNCHANGED <<only_waiting, job_result, success>>

\* mutant: an unrecognized status is not counted as a poll
OnUnknownStatusNotCounted(now) ==
    /\ elapsed' = now + unknown_status_sleep
    /\ last_kind' = "unknown" /\ last_sleep' = unknown_status_sleep
    /\ only_waiting' = FALSE /\ only_errors' = FALSE
    /\ pc' = "poll"
    /\ UNCHANGED <<poll_count, job_result, success>>

\* bannerbear_composer.py:278-280
OnUnknownStatus(now) ==
    /\ poll_count' = count_poll(poll_count)
    /\ elapsed' = now + unknown_status_sleep
    /\ last_kind' = "unknown" /\ last_sleep' = unknown_status_sleep
    /\ only_waiting' = FALSE /\ only_errors' = FALSE
    /\ pc' = "poll"
    /\ UNCHANGED <<job_result, success>>

\* bannerbear_composer.py:236: the loop is left; its locals are not read again
OnCompleted ==
    /\ PollReset /\ pc' = "completed"
    /\ UNCHANGED success

\* bannerbear_composer.py:267-270
OnFailed ==
    /\ elapsed' = 0 /\ poll_count' = 0 /\ last_kind' = "none"
    /\ last_sleep' = 0 /\ only_waiting' = TRUE /\ only_errors' = TRUE
    /\ job_result' = "failed"
    /\ ComposeFailed

\* bannerbear_composer.py:225-284: one answer of the status endpoint, after
\* lat seconds, and the sleep that follows it
ReceiveStatus ==
    /\ pc = "await"
    /\ \E lat \in 0..MaxLatency, answer \in StatusAnswers :
         CASE answer = "error" -> OnTransportError(elapsed + lat)
           [] answer \in {"pending", "processing"} -> OnWaiting(elapsed + lat)
           [] answer = "completed" -> OnCompleted
           [] answer = "failed" -> OnFailed
           [] OTHER -> OnUnknownStatus(elapsed + lat)
    /\ UNCHANGED <<envVars, s3, product_index, hero_image_s3_url,
                   campaign_success, overall_success, main_result, brief_in_start,
                   resolved, generated, submitted, campaign_log, firefly_requests, submissions, dlVars, output_files>>

\* mutant: a completed job without a valid image goes on to the downloads
collection_has_assets_always(kept) == TRUE

\* bannerbear_composer.py:260
collection_has_assets(kept) == kept # <<>>

\* bannerbear_composer.py:236-265: the images of the 'completed' answer, drawn
\* when the code reads them
ExtractImages ==
    /\ pc = "completed"
    /\ \E answered \in SeqsUpTo(Images, MaxImages) :
         LET kept == collect_asset_data(answered, <<>>)
         IN /\ images' = answered
            /\ dl_log' = <<>> /\ asset_index' = 1 /\ success_count' = 0
            /\ IF collection_has_assets(kept)
               THEN /\ asset_data' = kept /\ job_result' = "completed"
                    /\ pc' = "download" /\ UNCHANGED success
               ELSE /\ asset_data' = <<>> /\ job_result' = "no_valid"
                    /\ ComposeFailed
    /\ UNCHANGED <<envVars, s3, product_index, hero_image_s3_url,
                   campaign_success, overall_success, main_result, brief_in_start,
                   resolved, generated, submitted, campaign_log, firefly_requests, submissions, elapsed, poll_count, last_kind,
                   last_sleep, only_waiting, only_errors, output_files>>

\* mutant: a failed download ends the loop
next_asset_unless_failed(index, downloaded, count) ==
    IF downloaded THEN index + 1 ELSE count + 1

\* bannerbear_composer.py:68 and 98-103: whatever download_file_from_url
\* returned, the loop goes on with the next variant
next_asset(index, downloaded, count) == index + 1

\* bannerbear_composer.py:68-103: one pass of the download loop
DownloadAsset ==
    /\ pc = "download"
    /\ asset_index <= Len(asset_data)
    /\ LET asset_info == asset_data[asset_index]
           sel == select_asset_url(asset_info, campaign_data.file_format)
           name == output_filename(asset_info, campaign_data.campaign_clean,
                                   product, sel.ext)
       IN IF ~Truthy(sel.url)
          THEN /\ dl_log' = Append(dl_log, [did |-> "skipped", url |-> None, ext |-> ""])
               /\ asset_index' = asset_index + 1
               /\ UNCHANGED <<success_count, output_files>>
          ELSE \E ok \in BOOLEAN :
                 /\ asset_index' = next_asset(asset_index, ok, Len(asset_data))
                 /\ IF ok
                    THEN /\ success_count' = success_count + 1
                         /\ output_files' = output_files \cup {name}
                         /\ dl_log' = Append(dl_log,
                               [did |-> "downloaded", url |-> sel.url, ext |-> sel.ext])
                    ELSE /\ dl_log' = Append(dl_log,
                               [did |-> "failed", url |-> sel.url, ext |-> sel.ext])
                         /\ UNCHANGED <<success_count, output_files>>
    /\ images' = <<>>
    /\ UNCHANGED <<envVars, s3, mainVars, resolved, generated, submitted, campaign_log, firefly_requests, submissions, pollVars,
                   asset_data>>

\* bannerbear_composer.py:105
ReturnAssets ==
    /\ pc = "download"
    /\ asset_index > Len(asset_data)
    /\ success' = assets_created(success_count)
    /\ pc' = "main_check"
    /\ UNCHANGED <<envVars, s3, product_index, hero_image_s3_url,
                   campaign_success, overall_success, main_result, brief_in_start,
                   callVars, campaign_log, firefly_requests, submissions,
                   pollVars, dlVars, output_files>>

\* main.py:137-143 and the loop header at 98; the locals of the calls that
\* returned are gone
MainCheck ==
    /\ pc = "main_check"
    /\ IF success
       THEN /\ UNCHANGED <<campaign_success, overall_success>>
            /\ IF product_index + 1 < Len(campaign_data.product)
               THEN product_index' = product_index + 1 /\ pc' = "resolve"
               ELSE pc' = "campaign_end" /\ UNCHANGED product_index
       ELSE /\ campaign_success' = FALSE /\ overall_success' = FALSE
            /\ pc' = "campaign_end" /\ UNCHANGED product_index
    /\ campaign_log' = [campaign_log EXCEPT ![brief_index].completed =
                            IF success THEN @ + 1 ELSE @]
    /\ PollReset /\ DlReset /\ resolved' = NoResolve /\ firefly_requests' = 0
    /\ submissions' = 0 /\ generated' = NoGenerate /\ submitted' = NoSubmission
    /\ UNCHANGED <<envVars, s3, hero_image_s3_url, success, main_result,
                   brief_in_start, output_files>>

F_brief == FileName(<<"campaign", "brief">>, "json")

\* mutant: the brief is archived whatever the campaign's result
archive_always(ok) == TRUE

\* mutant: the brief is never archived
archive_never(ok) == FALSE

\* main.py:146
archive_wanted(ok) == ok

\* main.py:145-153 and folder_manager.py:93-114: the brief is archived when
\* the campaign succeeded; then the next brief.  The locals of the product
\* loop are not read again before they are assigned.
CampaignEnd ==
    /\ pc = "campaign_end"
    /\ \E archive \in {"ok", "copy_failed", "unlink_failed"} :
         IF archive_wanted(campaign_success)
         THEN /\ input_folder' = IF archive = "copy_failed" THEN input_folder
                                 ELSE input_folder \cup {F_brief}
              /\ brief_in_start' =
                    [brief_in_start EXCEPT ![brief_index] = (archive # "ok")]
              /\ campaign_log' = [campaign_log EXCEPT ![brief_index] =
                    [@ EXCEPT !.reported = IF campaign_success THEN "succeeded"
                                           ELSE "failed",
                              !.copied = (archive # "copy_failed")]]
         ELSE /\ campaign_log' = [campaign_log EXCEPT
                                    ![brief_index].reported = "failed"]
              /\ UNCHANGED <<input_folder, brief_in_start>>
    /\ NextBrief(overall_success)
    /\ product_index' = 0 /\ hero_image_s3_url' = None /\ success' = FALSE
    /\ resolved' = NoResolve /\ generated' = NoGenerate /\ firefly_requests' = 0
    /\ UNCHANGED <<json_files, campaign_data, start_folder, access_token,
                   auth_requests, settings, s3, campaign_success,
                   overall_success, submitted, submissions,
                   pollVars, dlVars, output_files>>

Next ==
    \/ Start
    \/ ProcessBrief
    \/ Resolve
    \/ Generate
    \/ Submit
    \/ SendStatusRequest
    \/ ReceiveStatus
    \/ PollTimeout
    \/ ExtractImages
    \/ DownloadAsset
    \/ ReturnAssets
    \/ MainCheck
    \/ CampaignEnd

Spec == Init /\ [][Next]_vars

\* ------------------------------------------- the resolver on wider inputs
MaxStartFiles == 2

StartFiles == {F_asgiven, F_lower, F_capital, F_text, F_banner}

\* directories of at most MaxStartFiles distinct files, in any enumeration order
StartFolders ==
    {q \in SeqsUpTo(StartFiles, MaxStartFiles) :
        \A i, j \in 1..Len(q) : i # j => q[i] # q[j]}

GeneratedOld == FileName(<<"old">>, "jpg")

RemoteKeys ==
    {AssetKey(F_banner), AssetKey(F_asgiven),
     GeneratedKey(CampaignName, Products[1], GeneratedFilename),
     GeneratedKey(CampaignName, Products[1], GeneratedOld)}

InitResolve ==
    /\ \E start \in StartFolders, hero \in {AUTO, F_banner, F_asgiven},
          prior \in BOOLEAN, keys \in SUBSET RemoteKeys :
          LET json_file == Brief(RawCampaign, RawProducts,
                                 IF hero = AUTO THEN None ELSE Some(hero), "PNG",
                                 IF prior /\ hero # AUTO THEN {hero} ELSE {})
          IN /\ json_files = <<json_file>>
             /\ campaign_data = process_brief(json_file)[1]
             /\ start_folder = start
             /\ input_folder = setup_campaign_folders(json_file.input, start, hero)
             /\ s3 = StoreWith(keys)
    /\ access_token = Some("token")
    /\ settings = AllSet
    /\ InitMain

SpecResolve == InitResolve /\ [][Resolve]_vars

\* ------------------------------------- the brief processor on wider inputs
MaxProducts == 3

\* raw names, two of them with the same cleaned form and one that cleans to
\* the empty name
RawNames == {<<"P1">>, <<"P1", " ">>, <<" ", "P2">>, <<"&">>}

RawFormats ==
    {"PNG", "png", "Png", "JPEG", "jpeg", "jPeG", "JPG", "jpg", "Jpg", "gif", "xyz"}

\* main.py:67-72 with one brief in START: any product list of at most
\* MaxProducts raw names, any of RawFormats, a field missing or not, JSON or not
InitBrief ==
    /\ \E products \in SeqsUpTo(RawNames, MaxProducts), fmt \in RawFormats,
          readable \in BOOLEAN, complete \in BOOLEAN :
          json_files = << [Brief(RawCampaign, products, None, fmt, {})
                             EXCEPT !.readable = readable, !.complete = complete] >>
    /\ start_folder = <<>> /\ s3 = EmptyStore
    /\ access_token = Some("token") /\ settings = AllSet
    /\ pc = "brief" /\ brief_index = 1 /\ auth_requests = 1
    /\ campaign_data = NoData /\ input_folder = {}
    /\ MainIdle

SpecBrief == InitBrief /\ [][ProcessBrief]_vars

\* ------------------------------- the resolver on products that share a name
\* raw product names; the cleaned form of the first, followed by "_", begins
\* the cleaned form of the second
SharedNames == {<<"P1">>, <<"P1", " ", "x">>, <<" ", "P2">>}

\* main.py:98-108 at the first product of a brief of two different names of
\* SharedNames, without hero_image and with nothing staged; the bucket holds
\* the generated images of any of the names
InitShared ==
    /\ \E stored \in SUBSET SharedNames, names \in SharedNames \X SharedNames :
          LET json_file == Brief(RawCampaign, names, None, "PNG", {})
          IN /\ json_files = <<json_file>>
             /\ campaign_data = process_brief(json_file)[1]
             /\ s3 = StoreWith({GeneratedKey(clean_filename(RawCampaign),
                                    clean_filename(n), GeneratedFilename) :
                                    n \in stored})
    /\ json_files[1].product[1] # json_files[1].product[2]
    /\ start_folder = <<>> /\ input_folder = {}
    /\ access_token = Some("token")
    /\ settings = AllSet
    /\ InitMain

SpecShared == InitShared /\ [][Resolve]_vars

\* ------------------------------------------------- one run, end to end
\* one brief of two products without hero_image, nothing else in START, an
\* empty bucket, every variable of the environment set
InitEndToEnd ==
    /\ \E fmt \in {"PNG", "jpg"} :
          json_files = << Brief(RawCampaign, RawProducts, None, fmt, {}) >>
    /\ start_folder = <<>> /\ s3 = EmptyStore
    /\ settings = AllSet
    /\ InitStart

\* main is one sequential program: a step that can be taken is taken
SpecEndToEnd == InitEndToEnd /\ [][Next]_vars /\ WF_vars(Next)

\* ------------------------------------------------------------------ claims
\* a file named by the campaign_product_hero convention, with an image suffix
ConventionFile(f) ==
    /\ \/ f.stem = campaign_data.campaign_clean \o product \o <<"hero">>
       \/ f.stem = Lower(campaign_data.campaign_clean) \o Lower(product) \o <<"hero">>
       \/ f.stem = campaign_data.campaign_clean \o product \o <<"Hero">>
    /\ f.ext \in {"jpg", "jpeg", "png", "gif", "webp", "JPG", "JPEG", "PNG"}

\* the resolver is about to run with a convention-matching file staged and an
\* object at assets/<brief filename> in the store
LocalAndRemote ==
    /\ pc = "resolve"
    /\ \E i \in 1..Len(start_folder) : ConventionFile(start_folder[i])
    /\ campaign_data.hero_image # AUTO
    /\ AssetKey(campaign_data.hero_image) \in DOMAIN s3

C2_EveryFailureDegrades ==
    resolved.exit # 0 =>
        /\ ~resolved.raised
        /\ \A k \in resolved.fails : resolved.exit > k

\* C3: generation is invoked, and a generation request issued, for a product
\* only after the resolver returned no URL for that product.
C3_GenerationOnlyOnMiss ==
    (pc = "generate" \/ firefly_requests > 0) =>
        /\ resolved.exit # 0
        /\ ~resolved.raised
        /\ resolved.ret = None

\* C3 witness: a generation request was issued after a miss, and produced a link
C3_Witness ==
    /\ firefly_requests = 1
    /\ resolved.exit = 5
    /\ hero_image_s3_url # None
    /\ pc = "compose"

\* the schedule of section 8, for poll indices 1..8
Backoff8 == <<3, 5, 5, 10, 10, 15, 15, 15>>

\* C4: while every answer is pending or processing, the wait after the k-th
\* poll is the k-th element of [3,5,5,10,10,15,15,15], and 15 seconds after
\* every later poll.
C4_BackoffSchedule ==
    (only_waiting /\ poll_count >= 1) =>
        /\ last_kind = "waiting"
        /\ last_sleep = IF poll_count <= 8 THEN Backoff8[poll_count] ELSE 15

\* C4 witness: the 8th answer in a row was pending / processing
C4_Witness ==
    only_waiting /\ poll_count = 8 /\ last_sleep = 15 /\ pc = "poll"

\* C5: a status request leaves only while less than 120 seconds have elapsed
\* and no terminal status was seen; after a terminal status the job is not
\* polled again; a timeout is reported only with the budget used up and no
\* terminal status seen.
C5_PollingStops ==
    /\ pc = "await" => (elapsed < 120 /\ job_result = "none")
    /\ (pc = "completed" \/ job_result \in {"completed", "no_valid", "failed"})
          => pc \notin {"poll", "await"}
    /\ job_result = "timeout" =>
          (elapsed >= 120 /\ last_kind \in {"waiting", "unknown", "error"})

\* C5 witness: the wait timed out, past the budget, after a non-terminal answer
C5_Witness ==
    job_result = "timeout" /\ elapsed > 120 /\ last_kind = "waiting"

\* C6 as stated: an unrecognized status is followed by the 10-second wait and
\* leaves the backoff index where it was: the interval that the next pending /
\* processing answer waits is the same after the answer as before it.
C6_UnknownKeepsBackoffIndex ==
    [][(pc = "await" /\ last_kind' = "unknown") =>
          /\ last_sleep' = 10
          /\ sleep_time(poll_count' + 1) = sleep_time(poll_count + 1)]_vars

\* C6 amended: an unrecognized status is followed by the 10-second wait and
\* another turn of the loop, and it counts as a poll: it advances the backoff
\* index by one, so that a pending / processing answer waits the interval of
\* its poll number, unrecognized answers counted.
C6_UnknownCountsAsPoll ==
    [][/\ (pc = "await" /\ last_kind' = "unknown") =>
             /\ pc' = "poll"
             /\ last_sleep' = 10
             /\ elapsed' >= elapsed + 10
             /\ poll_count' = poll_count + 1
       /\ (pc = "await" /\ last_kind' = "waiting") =>
             /\ poll_count' = poll_count + 1
             /\ last_sleep' = IF poll_count' <= 8 THEN Backoff8[poll_count'] ELSE 15]_vars

\* C6 witness: the first answer was unrecognized, the second one pending or
\* processing, and the wait after it was the second interval of the schedule
C6_Witness ==
    /\ last_kind = "waiting" /\ poll_count = 2 /\ ~only_waiting
    /\ elapsed <= 17 /\ last_sleep = 5

\* C7: a transport error is followed by the 10-second wait and another turn
\* of the loop, not by a failure; it leaves poll_count (the schedule position)
\* where it was; and a wait in which every answer was a transport error ends
\* in a timeout once the budget is used up.
C7_TransportErrorRetries ==
    [][/\ (pc = "await" /\ last_kind' = "error") =>
             /\ pc' = "poll"
             /\ job_result' = "none"
             /\ last_sleep' = 10
             /\ elapsed' >= elapsed + 10
             /\ poll_count' = poll_count
       /\ (pc = "poll" /\ only_errors /\ pc' \notin {"poll", "await"}) =>
             /\ job_result' = "timeout"
             /\ elapsed >= 120]_vars

\* C7 witness: a wait made of transport errors only has timed out
C7_Witness ==
    job_result = "timeout" /\ only_errors /\ last_kind = "error" /\ poll_count = 0

\* the URL of a variant for the requested format
RequestedUrl(asset_info) ==
    IF campaign_data.file_format = "PNG" THEN asset_info.image_url_png
    ELSE asset_info.image_url_jpg

\* the first available of the requested URL, the PNG URL, the JPG URL
FallbackUrl(asset_info) ==
    IF RequestedUrl(asset_info) # None THEN RequestedUrl(asset_info)
    ELSE IF asset_info.image_url_png # None THEN asset_info.image_url_png
    ELSE asset_info.image_url_jpg

\* C8 as stated: a variant without a URL for the requested format is fetched
\* from its PNG URL, else its JPG URL, under the extension of the URL used; it
\* is skipped only when it has no URL at all.
C8_FallbackToOtherFormat ==
    \A i \in 1..Len(dl_log) :
       IF FallbackUrl(asset_data[i]) = None
       THEN dl_log[i].did = "skipped"
       ELSE /\ dl_log[i].did # "skipped"
            /\ dl_log[i].url = FallbackUrl(asset_data[i])
            /\ dl_log[i].ext = dl_log[i].url[1]

\* C8 amended: for a requested format PNG or JPEG there is no fallback: a
\* variant is fetched from the URL of the requested format, under the
\* extension png (PNG) or jpg (JPEG), and it is skipped exactly when it has no
\* URL for the requested format, whether or not it has one for the other.
C8_RequestedFormatOnly ==
    \A i \in 1..Len(dl_log) :
       IF RequestedUrl(asset_data[i]) = None
       THEN dl_log[i].did = "skipped"
       ELSE /\ dl_log[i].did # "skipped"
            /\ dl_log[i].url = RequestedUrl(asset_data[i])
            /\ dl_log[i].ext = dl_log[i].url[1]
            /\ dl_log[i].ext = IF campaign_data.file_format = "PNG" THEN "png" ELSE "jpg"

\* C8 witness: a variant that has a PNG URL was skipped under a JPEG request
C8_Witness ==
    \E i \in 1..Len(dl_log) :
       /\ campaign_data.file_format = "JPEG"
       /\ dl_log[i].did = "skipped"
       /\ asset_data[i].image_url_png # None

\* C9: when the job completed with a non-empty variant list, the product is
\* reported as a success exactly when at least one variant was downloaded.
C9_SuccessIffOneDownload ==
    (pc = "main_check" /\ job_result = "completed") =>
        /\ asset_data # <<>>
        /\ Len(dl_log) = Len(asset_data)
        /\ success <=> \E i \in 1..Len(dl_log) : dl_log[i].did = "downloaded"

\* C9 witness: every variant was skipped or failed, and the product failed
C9_Witness ==
    /\ pc = "main_check" /\ job_result = "completed" /\ ~success
    /\ \E i, j \in 1..Len(dl_log) :
          dl_log[i].did = "skipped" /\ dl_log[j].did = "failed"

\* an image that supplies a width, a height and a PNG or JPG URL
SuppliesAll(image) ==
    /\ image.width # None /\ image.height # None
    /\ (image.image_url_png # None \/ image.image_url_jpg # None)

\* C10: the variant list of a 'completed' answer is the sub-sequence, in the
\* original order, of the images that supply width, height and a PNG or JPG
\* URL; the others are dropped, and the job goes on when one image is valid.
C10_KeptSubsequence ==
    ((pc = "download" /\ asset_index = 1) \/ job_result = "no_valid") =>
        LET valid == SelectSeq(images, SuppliesAll)
        IN /\ Len(asset_data) = Len(valid)
           /\ \A i \in 1..Len(valid) :
                 /\ asset_data[i].image_url_png = valid[i].image_url_png
                 /\ asset_data[i].image_url_jpg = valid[i].image_url_jpg
                 /\ Some(asset_data[i].height) = valid[i].height
                 /\ Some(asset_data[i].width) = valid[i].width
           /\ (valid # <<>>) <=> (pc = "download" /\ job_result = "completed")

\* C10 witness: the first of two images has no URL and was dropped, the
\* second was kept and the job went on to the downloads
C10_Witness ==
    /\ pc = "download" /\ asset_index = 1 /\ Len(images) = 2
    /\ images[1].image_url_png = None /\ images[1].image_url_jpg = None
    /\ Len(asset_data) = 1
\* C11: a 'completed' answer that leaves no valid variant (an empty or absent
\* list included) is a job failure: polling has stopped, nothing is
\* downloaded, create_campaign_assets returns False; and a download loop
\* never runs over an empty variant list.
C11_NoValidVariantIsFailure ==
    /\ job_result = "no_valid" =>
          /\ SelectSeq(images, SuppliesAll) = <<>>
          /\ pc = "main_check" /\ ~success
          /\ asset_data = <<>> /\ dl_log = <<>> /\ success_count = 0
          /\ \A f \in output_files : f.product # product
    /\ pc = "download" => asset_data # <<>>

\* C11 witness: the answer held two images, the first with a PNG URL, and
\* none of them was valid
C11_Witness ==
    /\ job_result = "no_valid" /\ Len(images) = 2
    /\ Truthy(images[1].image_url_png)

\* the positions of main inside the processing of one product
ProductSteps ==
    {"resolve", "generate", "compose", "poll", "await", "completed", "download"}

\* C12 as stated: a product is processed only while every earlier product of
\* its campaign succeeded, and whatever went wrong with a product (an error
\* raised while resolving or composing it included), every discovered brief
\* is reached before the run ends.
C12_FailFastOtherBriefsProcessed ==
    /\ pc \in ProductSteps =>
          /\ campaign_success
          /\ campaign_log[brief_index].completed = product_index
    /\ (pc = "done" /\ brief_index >= 1) => brief_index = Len(json_files)

\* the briefs whose campaign main has reported as succeeded or failed
Reported == {i \in 1..Len(json_files) :
                campaign_log[i].reported \in {"succeeded", "failed"}}

\* C13 as stated: a processed campaign has its brief copied to
\* input/campaign_brief.json and removed from START if and only if it is
\* reported as succeeded.
C13_ArchivedIffSucceeded ==
    \A i \in Reported :
       (campaign_log[i].copied /\ ~brief_in_start[i])
           <=> campaign_log[i].reported = "succeeded"

\* C13 amended: a campaign reported as failed leaves its brief in START and
\* no copy is made; a brief is copied or removed only for a campaign reported
\* as succeeded, which is one whose products all succeeded, and it is removed
\* only after it was copied; when the copy or the removal fails the brief
\* of a succeeded campaign stays in START.
C13_ArchiveOnlyOnSuccess ==
    \A i \in 1..Len(json_files) :
       /\ campaign_log[i].reported = "failed" =>
             brief_in_start[i] /\ ~campaign_log[i].copied
       /\ campaign_log[i].copied => campaign_log[i].reported = "succeeded"
       /\ ~brief_in_start[i] =>
             campaign_log[i].reported = "succeeded" /\ campaign_log[i].copied
       /\ campaign_log[i].reported = "succeeded" =>
             /\ Truthy(process_brief(json_files[i]))
             /\ campaign_log[i].completed = Len(json_files[i].product)

\* C13 witness: the run is over, the first campaign was reported as succeeded,
\* its brief was copied and is still in START
C13_Witness ==
    /\ pc = "done" /\ Len(json_files) >= 1
    /\ campaign_log[1].reported = "succeeded"
    /\ campaign_log[1].copied /\ brief_in_start[1]

\* the brief was accepted, and the assets of each of its products were created
FullyCompleted(i) ==
    /\ Truthy(process_brief(json_files[i]))
    /\ campaign_log[i].reported \notin {"rejected", "setup_failed"}
    /\ campaign_log[i].completed = Len(process_brief(json_files[i])[1].product)

\* C14: main returns True only if every discovered brief was valid, had its
\* folders set up and had each of its products completed; a run that ends
\* with a brief short of that returns False.
C14_RunSucceedsOnlyIfAllCompleted ==
    /\ main_result = "True" =>
          pc = "done" /\ \A i \in 1..Len(json_files) : FullyCompleted(i)
    /\ (pc = "done" /\ \E i \in 1..Len(json_files) : ~FullyCompleted(i)) =>
          main_result = "False"

\* C14 witness: two briefs, each with both products completed, and the run
\* returned True
C14_Witness ==
    /\ main_result = "True" /\ Len(json_files) = 2
    /\ campaign_log[1].completed = 2 /\ campaign_log[2].completed = 2

\* C15 as stated: with any of the credentials missing (bucket credentials
\* and bucket, generation client id and secret, rendering API key and
\* collection id) the run ends before a brief is parsed and before any
\* request is made.
C15_MissingCredentialAbortsFirst ==
    (\E var \in SettingNames : ~settings[var]) =>
        /\ pc \in {"start", "done"} /\ main_result # "True"
        /\ brief_index = 0 /\ campaign_data = NoData
        /\ auth_requests = 0 /\ resolved = NoResolve
        /\ firefly_requests = 0 /\ submissions = 0

\* a brief that fails validation: it is not JSON, lacks a required field,
\* has fewer than two products, or asks for a format other than PNG or JPEG
FailsValidation(b) ==
    \/ ~b.readable \/ ~b.complete
    \/ Len(b.product) < 2
    \/ b.file_format \notin {"PNG", "JPEG", "JPG", "png", "jpeg", "jpg"}

\* the brief at position i fails validation
RejectedAt(i) == i \in 1..Len(json_files) /\ FailsValidation(json_files[i])

\* C16: a brief that fails validation is skipped and the loop goes on: while
\* it is the current brief no product step is taken; the step that rejects
\* it touches neither the folders nor the bucket, sends nothing, leaves the
\* file in START and moves to the next brief if there is one; nothing is
\* ever created or archived for it; and the run does not return True.
C16_RejectedBriefIsSkipped ==
    /\ [](\A i \in 1..Len(json_files) : RejectedAt(i) =>
             /\ brief_in_start[i]
             /\ campaign_log[i].reported \in {"none", "rejected"}
             /\ campaign_log[i].completed = 0 /\ ~campaign_log[i].copied
             /\ brief_index = i => pc \in {"brief", "done"}
             /\ campaign_log[i].reported = "rejected" =>
                   ~overall_success /\ main_result # "True")
    /\ [][(pc = "brief" /\ RejectedAt(brief_index)) =>
             /\ campaign_log'[brief_index].reported = "rejected"
             /\ IF brief_index < Len(json_files)
                THEN pc' = "brief" /\ brief_index' = brief_index + 1
                ELSE pc' = "done" /\ main_result' = "False"
             /\ UNCHANGED <<s3, input_folder, output_files, start_folder,
                            brief_in_start, auth_requests, firefly_requests,
                            submissions, callVars>>]_vars

\* C16 witness: the first of two briefs was rejected and the second one is
\* being processed
C16_Witness ==
    /\ Len(json_files) = 2 /\ RejectedAt(1)
    /\ campaign_log[1].reported = "rejected"
    /\ brief_index = 2 /\ pc = "download"

\* C17: the credential exchange is requested once in a run that constructs
\* the generation client (a run that made none ended on a configuration
\* error before any brief), and never again, however many products need
\* generation; when it
\* failed, a generation call sends no generation request and returns no
\* image, so a product is composed only with a link from the resolver.
C17_AuthenticatesOnce ==
    /\ auth_requests <= 1
    /\ brief_index >= 1 => auth_requests = 1
    /\ auth_requests = 0 =>
          brief_index = 0 /\ (pc = "done" => main_result = "False")
    /\ ~Truthy(access_token) =>
          /\ firefly_requests = 0
          /\ generated.called => hero_image_s3_url = None /\ ~campaign_success
          /\ \A k \in DOMAIN s3 : s3[k] # "generated"
          /\ pc \in ProductSteps \ {"resolve", "generate"} =>
                Truthy(resolved.ret) /\ hero_image_s3_url = resolved.ret

\* C17 witness: the exchange had failed, the second product of a campaign
\* needed generation, and the call returned nothing
C17_Witness ==
    /\ ~Truthy(access_token) /\ auth_requests = 1
    /\ pc = "campaign_end" /\ product_index = 1
    /\ generated.called /\ ~generated.token

\* the generation call recorded in generated did not end with a link
GenerationFailed(t) == t.called /\ ~(t.token /\ t.gen = "ok" /\ t.put /\ t.presign)

\* C18: a generation call that fails (no token, an answer other than 200, an
\* answer without the output link, bytes not downloaded, bytes not stored or
\* not linked) returns no image, stores nothing unless the bytes were
\* obtained, sends at most one generation request, and ends the campaign as
\* failed with no composition job submitted for the product.
C18_GenerationFailureIsFinal ==
    /\ [](GenerationFailed(generated) =>
            /\ pc \in {"campaign_end", "brief", "done"}
            /\ pc = "campaign_end" =>
                  /\ hero_image_s3_url = None
                  /\ ~campaign_success /\ ~overall_success
                  /\ submissions = 0 /\ submitted = NoSubmission
                  /\ firefly_requests = IF generated.token THEN 1 ELSE 0)
    /\ [][pc = "generate" =>
            /\ generated'.called
            /\ GenerationFailed(generated') =>
                  /\ pc' = "campaign_end"
                  /\ generated'.gen # "ok" => s3' = s3
                  /\ generated'.gen = "ok" /\ ~generated'.put => s3' = s3
            /\ ~GenerationFailed(generated') =>
                  pc' = "compose" /\ Truthy(hero_image_s3_url')]_vars

\* C18 witness: the service answered without an output link, and the
\* campaign ended there
C18_Witness ==
    /\ pc = "campaign_end" /\ generated.called /\ generated.token
    /\ generated.gen = "no_output" /\ firefly_requests = 1
    /\ hero_image_s3_url = None /\ ~campaign_success

\* the answer recorded in submitted is an acceptance that names the job
AcceptedWithUid(t) == t.transport /\ t.status_code \in {201, 202} /\ t.uid

\* C19: a submission is followed by polling exactly when its answer has
\* status 201 or 202 and carries a uid; after any other answer no status
\* request is sent, the submission is not repeated, and the product, the
\* campaign and the run are marked failed.
C19_PollingIffAcceptedWithUid ==
    /\ [](submitted.sent =>
            /\ submissions = 1
            /\ pc \in {"poll", "main_check"}
            /\ pc = "poll" <=> AcceptedWithUid(submitted)
            /\ PollIdle /\ DlIdle
            /\ pc = "main_check" => ~success)
    /\ [][(pc = "compose" => (submitted'.sent => submissions' = submissions + 1))
          /\ (pc = "main_check" /\ submitted.sent =>
                 /\ pc' = "campaign_end"
                 /\ ~campaign_success' /\ ~overall_success'
                 /\ campaign_log'[brief_index].completed
                       = campaign_log[brief_index].completed
                 /\ UNCHANGED <<s3, output_files, pollVars, dlVars>>)]_vars

\* C19 witness: the answer had an accepted status and no uid, and the
\* product was handed back as failed with no status request sent
C19_Witness ==
    /\ pc = "main_check" /\ submitted.sent /\ submitted.transport
    /\ submitted.status_code = 201 /\ ~submitted.uid
    /\ ~success /\ poll_count = 0 /\ submissions = 1

\* C20: for every product at most one generation request, one submission,
\* one upload by the resolver and one download attempt per rendered variant
\* are made, whatever their outcomes; a step of the product loop that failed
\* is not taken again, and a status request follows an earlier one only
\* after a transport error or an answer that the job is not finished.
C20_NoRetryOutsidePolling ==
    /\ [](firefly_requests <= 1 /\ submissions <= 1)
    /\ [](
           /\ Len(resolved.puts) <= 1
           /\ Len(dl_log) <= Len(asset_data)
           /\ pc = "download" => asset_index = Len(dl_log) + 1
           /\ job_result \in {"failed", "timeout", "no_valid"} =>
                 pc \notin {"poll", "await"})
    /\ [][
          /\ pc \in {"resolve", "generate", "compose"} => pc' # pc
          /\ pc = "await" /\ pc' = "poll" =>
                last_kind' \in {"error", "waiting", "unknown"}
          /\ pc = "download" /\ pc' = "download" =>
                asset_index' = asset_index + 1 /\ Len(dl_log') = Len(dl_log) + 1
          /\ pc = "main_check" /\ ~success =>
                pc' = "campaign_end" /\ firefly_requests' = 0 /\ submissions' = 0]_vars

\* C20 witness: a download failed, and the loop went on to the return with
\* one attempt per variant
C20_Witness ==
    /\ pc = "main_check" /\ Len(asset_data) >= 2 /\ Len(dl_log) = Len(asset_data)
    /\ \E i \in DOMAIN dl_log : dl_log[i].did = "failed"
    /\ submissions = 1 /\ firefly_requests <= 1

\* the brief at brief_index was accepted and its campaign is set up
Accepted == pc = "resolve" /\ product_index = 0 /\ resolved = NoResolve

\* C21: an accepted brief has, after normalization, at least two products
\* that differ in their cleaned form.
C21_TwoDistinctProducts ==
    Accepted =>
        \E i, j \in 1..Len(campaign_data.product) :
            campaign_data.product[i] # campaign_data.product[j]

\* spellings of the two formats, in any letter case
PngSpellings == {"PNG", "png", "Png"}
JpegSpellings == {"JPEG", "jpeg", "jPeG", "JPG", "jpg", "Jpg"}

\* C22: a readable brief with every required field passes validation exactly
\* when it has two or more products and its format is a spelling of PNG, JPEG
\* or JPG; the normalized format of an accepted brief is "PNG" for a
\* spelling of PNG and "JPEG" for a spelling of JPEG or JPG.
C22_ValidationAndFormat ==
    /\ [](pc = "resolve" =>
            /\ Len(campaign_data.product) >= 2
            /\ campaign_data.file_format \in {"PNG", "JPEG"})
    /\ [][pc = "brief" =>
            LET b == json_files[brief_index]
                passed == campaign_log'[brief_index].reported # "rejected"
            IN /\ passed <=>
                     /\ b.readable /\ b.complete
                     /\ Len(b.product) >= 2
                     /\ b.file_format \in PngSpellings \cup JpegSpellings
               /\ passed =>
                     campaign_data'.file_format =
                        IF b.file_format \in PngSpellings THEN "PNG" ELSE "JPEG"]_vars

\* C22 witness: a brief with two products and the format "Jpg" was accepted
\* with the format "JPEG"
C22_Witness ==
    /\ Accepted /\ Len(json_files[brief_index].product) = 2
    /\ json_files[brief_index].file_format = "Jpg"
    /\ campaign_data.file_format = "JPEG"

\* generation has just failed for the second product of a campaign whose
\* first product was completed
SecondGenerationFailed ==
    /\ pc = "campaign_end" /\ product_index = 1
    /\ GenerationFailed(generated)
    /\ campaign_log[brief_index].completed = 1

\* C23: when generation fails for the second product after the first was
\* completed, the campaign is marked failed, the files downloaded for the
\* first product are still there and none is added or removed by the failed
\* step or by the end of the campaign, and the brief stays in the staging
\* directory, not copied.
C23_FailureLeavesFirstProductFiles ==
    /\ [](SecondGenerationFailed =>
            /\ ~campaign_success /\ ~overall_success
            /\ brief_in_start[brief_index]
            /\ \E f \in output_files : f.product = campaign_data.product[1]
            /\ \A f \in output_files : f.product = campaign_data.product[1])
    /\ [][(pc = "generate" /\ product_index = 1 => output_files' = output_files)
          /\ (SecondGenerationFailed =>
                 /\ output_files' = output_files
                 /\ input_folder' = input_folder /\ s3' = s3
                 /\ brief_in_start' = brief_in_start
                 /\ campaign_log'[brief_index] =
                       [reported |-> "failed", completed |-> 1, copied |-> FALSE]
                 /\ pc' = "done" => main_result' = "False")]_vars

\* C23 witness: the first product has a downloaded file and the generation
\* request of the second was answered with an error
C23_Witness ==
    /\ SecondGenerationFailed /\ generated.gen = "non200"
    /\ output_files # {}

\* no remote call has just failed: the credential exchange, the calls of the
\* resolver, the generation call, the submission, a download
RemoteCallsSucceed ==
    /\ pc # "start" => Truthy(access_token)
    /\ resolved.fails = {} /\ ~resolved.raised
    /\ ~GenerationFailed(generated)
    /\ submitted.sent => AcceptedWithUid(submitted)
    /\ \A i \in DOMAIN dl_log : dl_log[i].did # "failed"

\* the job was not reported failed, was completed within the budget, and
\* listed a variant with a URL in the requested format
JobCompletes ==
    /\ job_result \notin {"failed", "timeout", "no_valid"}
    /\ pc = "download" =>
          \E i \in DOMAIN asset_data :
              Truthy(select_asset_url(asset_data[i], campaign_data.file_format).url)

\* no operation on the local disk has just failed: the folders of the
\* campaign, the output folder (its failure ends the run through
\* main.py:163-165), the copy and the removal of the brief
LocalOperationsSucceed ==
    /\ \A i \in DOMAIN campaign_log :
          /\ campaign_log[i].reported # "setup_failed"
          /\ campaign_log[i].reported = "succeeded" =>
                campaign_log[i].copied /\ ~brief_in_start[i]
    /\ ~(pc = "done" /\ main_result = "False" /\ overall_success)

\* both products were generated and have a downloaded file, the campaign is
\* reported as succeeded, the brief is archived and gone from START
EndToEndGoal ==
    /\ pc = "done" /\ main_result = "True"
    /\ campaign_log[1] = [reported |-> "succeeded", completed |-> 2, copied |-> TRUE]
    /\ ~brief_in_start[1] /\ F_brief \in input_folder
    /\ \A i \in 1..2 :
          LET key == GeneratedKey(campaign_data.campaign_clean,
                                  campaign_data.product[i], GeneratedFilename)
          IN /\ key \in DOMAIN s3 /\ s3[key] = "generated"
             /\ \E f \in output_files : f.product = campaign_data.product[i]

C25_LinkMintedForThisProduct ==
    /\ [](submitted.sent =>
            /\ Truthy(submitted.image_url)
            /\ submitted.image_url = hero_image_s3_url
            /\ submissions = 1
            /\ resolved.exit # 0
            /\ IF Truthy(resolved.ret)
               THEN submitted.image_url = resolved.ret /\ ~generated.called
               ELSE /\ generated.called /\ generated.presign
                    /\ submitted.image_url =
                          Some(GeneratedKey(campaign_data.campaign_clean, product,
                                            GeneratedFilename)))
    /\ [][(submissions = 1 /\ submissions' # 1 =>
                /\ pc = "main_check" /\ submissions' = 0
                /\ pc' = "resolve" => product_index' = product_index + 1)
          /\ (pc = "resolve" /\ pc' \in {"generate", "compose"} =>
                hero_image_s3_url' = resolved'.ret)
          /\ (pc \notin {"resolve", "generate", "campaign_end"} =>
                UNCHANGED hero_image_s3_url)]_vars

\* C25 witness: the second product's job is submitted with the link of the
\* image generated for it
C25_Witness ==
    /\ submitted.sent /\ product_index = 1 /\ AcceptedWithUid(submitted)
    /\ generated.presign /\ ~Truthy(resolved.ret)

\* C26: a resolver call that returns through priority 3 (object already in
\* the store), priority 4 (previously generated asset) or with a miss sends
\* no put and leaves the keys and the contents of the store as they were; a
\* put is sent only by a call that returns through priority 1 or 2.
C26_NoPutBeyondLocalFiles ==
    [][pc = "resolve" =>
         /\ resolved'.exit \in {3, 4, 5} => s3' = s3 /\ resolved'.puts = <<>>
         /\ (s3' # s3 \/ resolved'.puts # <<>>) =>
               /\ resolved'.exit \in {1, 2}
               /\ \A k \in DOMAIN s3' : k \in DOMAIN s3 \/ resolved'.puts = <<k>>
               /\ \A k \in DOMAIN s3 :
                     k \in DOMAIN s3' /\ (s3'[k] # s3[k] => resolved'.puts = <<k>>)]_vars

\* C26 witness: the call returned a link through priority 3, the object
\* being in the store
C26_Witness ==
    /\ resolved.exit = 3 /\ Truthy(resolved.ret) /\ resolved.puts = <<>>
    /\ campaign_data.hero_image # AUTO
    /\ AssetKey(campaign_data.hero_image) \in DOMAIN s3

\* the place of the pattern that a staged file matches for the product being
\* resolved: 1 as given, 2 all-lowercase, 3 capitalized Hero, 0 none
PatternRank(f) ==
    IF f.stem = campaign_data.campaign_clean \o product \o <<"hero">> THEN 1
    ELSE IF f.stem = Lower(campaign_data.campaign_clean \o product) \o <<"hero">> THEN 2
    ELSE IF f.stem = campaign_data.campaign_clean \o product \o <<"Hero">> THEN 3
    ELSE 0

\* positions in START of the files that match a pattern and have an image
\* suffix (compared in lower case)
Candidates ==
    {i \in 1..Len(start_folder) :
        /\ PatternRank(start_folder[i]) > 0
        /\ start_folder[i].ext \in
              {"jpg", "jpeg", "png", "gif", "webp", "JPG", "JPEG", "PNG"}}

\* the candidate of the earliest pattern, the first enumerated among equals
BestCandidate ==
    CHOOSE i \in Candidates : \A j \in Candidates :
        \/ PatternRank(start_folder[i]) < PatternRank(start_folder[j])
        \/ PatternRank(start_folder[i]) = PatternRank(start_folder[j]) /\ i <= j

\* C27: the resolver returns through priority 1 exactly when START holds a
\* file that matches one of the three patterns and has an image suffix, and
\* the file it uploads is then the one matching the earliest pattern (as
\* given, all-lowercase, capitalized Hero); a matching file without an image
\* suffix is never taken and hides no other file.
C27_EarliestPatternWins ==
    [][pc = "resolve" =>
         /\ resolved'.exit = 1 <=> Candidates # {}
         /\ Candidates # {} =>
               resolved'.puts = <<AssetKey(start_folder[BestCandidate])>>]_vars

\* C27 witness: a file of a later pattern, or a matching text file, is
\* enumerated before the file that was taken
C27_Witness ==
    /\ resolved.exit = 1 /\ Len(start_folder) = 2
    /\ resolved.puts = <<AssetKey(start_folder[2])>>
    /\ PatternRank(start_folder[1]) > 0

\* C28: for a brief that names no hero image (normalized to the sentinel
\* "auto") the resolver returns through priority 1 or 4 or with a miss, and
\* sends no existence check; for a brief that names a file and has no
\* convention-named file staged, it returns through priority 2 when the
\* file is in the input folder and otherwise sends one existence check,
\* for assets/<filename>.
C28_AutoSkipsNamedFile ==
    [][pc = "resolve" =>
         IF ~Truthy(json_files[brief_index].hero_image)
         THEN /\ campaign_data.hero_image = AUTO
              /\ resolved'.exit \in {1, 4, 5}
              /\ resolved'.heads = <<>>
              /\ resolved'.fails \cap {2, 3} = {} /\ ~resolved'.raised
              /\ \A i \in 1..Len(resolved'.puts) : resolved'.puts[i] # AssetKey(AUTO)
         ELSE /\ campaign_data.hero_image = json_files[brief_index].hero_image[1]
              /\ resolved'.exit # 1 =>
                    IF campaign_data.hero_image \in input_folder
                    THEN resolved'.exit = 2 /\ resolved'.heads = <<>>
                    ELSE resolved'.heads = <<AssetKey(campaign_data.hero_image)>>]_vars

\* C28 witness: no hero image named, objects under assets/ in the store,
\* and the call returned the previously generated asset
C28_Witness ==
    /\ ~Truthy(json_files[brief_index].hero_image)
    /\ resolved.exit = 4 /\ Truthy(resolved.ret) /\ resolved.heads = <<>>
    /\ AssetKey(F_banner) \in DOMAIN s3

\* the resolver has returned a link through priority 1 or 2, having uploaded
\* a local file
UploadedLocalFile ==
    /\ pc = "compose" /\ resolved.exit \in {1, 2} /\ Truthy(resolved.ret)

\* C29: after a resolver call that uploaded a local file, a second call for
\* the same product with the same local files, whose put and signing
\* succeed, returns through the same priority with a link to the same
\* object, and leaves the store with the same keys and the same contents.
C29_UploadIdempotent ==
    UploadedLocalFile =>
        /\ Len(resolved.puts) = 1 /\ resolved.puts[1] \in DOMAIN s3
        /\ s3[resolved.puts[1]] = "local"
        /\ \A o \in ResolveOutcomes :
              LET again == ensure_asset_in_s3(s3, campaign_data.hero_image,
                              input_folder, start_folder,
                              campaign_data.campaign_clean, product, o)
              IN o.put /\ o.presign =>
                    /\ again.exit = resolved.exit /\ ~again.raised
                    /\ Truthy(again.ret) /\ again.ret = resolved.ret
                    /\ again.puts = resolved.puts
                    /\ DOMAIN again.s3 = DOMAIN s3 /\ again.s3 = s3

\* C29 witness: the first call has overwritten an object that was in the
\* store before it
C29_Witness ==
    /\ UploadedLocalFile /\ resolved.exit = 1
    /\ resolved.puts = <<AssetKey(F_asgiven)>>
    /\ s3[AssetKey(F_asgiven)] = "local" /\ Cardinality(DOMAIN s3) >= 2

\* the kept variant i has a URL in the requested format
Attemptable(i) ==
    Truthy(select_asset_url(asset_data[i], campaign_data.file_format).url)

\* C30: in the download loop of one job every kept variant is passed once,
\* in order; a variant with a URL in the requested format is attempted once
\* whatever happened to the variants before it, the others are skipped; a
\* failed attempt leaves the tally as it was and the loop goes on; the
\* product succeeds when the tally, the number of successful attempts, is
\* not zero.
C30_FailedDownloadDoesNotAbort ==
    /\ [](pc \in {"download", "main_check"} /\ asset_data # <<>> =>
            /\ Len(dl_log) = asset_index - 1
            /\ pc = "main_check" => Len(dl_log) = Len(asset_data)
            /\ \A i \in 1..Len(dl_log) :
                  IF Attemptable(i)
                  THEN /\ dl_log[i].did \in {"downloaded", "failed"}
                       /\ dl_log[i].url = select_asset_url(asset_data[i],
                                              campaign_data.file_format).url
                  ELSE dl_log[i].did = "skipped"
            /\ success_count =
                  Cardinality({i \in 1..Len(dl_log) : dl_log[i].did = "downloaded"})
            /\ pc = "main_check" => (success <=> success_count > 0))
    /\ [][pc = "download" /\ asset_index <= Len(asset_data) =>
            /\ pc' = "download" /\ asset_index' = asset_index + 1
            /\ asset_data' = asset_data
            /\ SubSeq(dl_log', 1, Len(dl_log)) = dl_log
            /\ Len(dl_log') = Len(dl_log) + 1
            /\ dl_log'[Len(dl_log')].did = "failed" =>
                  success_count' = success_count
            /\ UNCHANGED <<campaign_success, overall_success, main_result>>]_vars

\* C30 witness: the first variant's download failed, a later one succeeded,
\* and the product was handed back as a success
C30_Witness ==
    /\ pc = "main_check" /\ success /\ Len(dl_log) >= 2
    /\ dl_log[1].did = "failed"
    /\ \E i \in 2..Len(dl_log) : dl_log[i].did = "downloaded"

\* the generation call for the product being processed has stored its bytes
GeneratedStored == generated.called /\ generated.put

\* C31: once the generation call has stored the image of a product, it is
\* at generated/<campaign>_<product>_hero.jpg, and a later resolver call for
\* the same campaign and product, with no convention-named file staged and
\* no filename in the brief, whose listing and signing succeed, returns a
\* link through priority 4 without any put, so that generation is not
\* needed again.
C31_GeneratedAssetIsFoundAgain ==
    GeneratedStored =>
        LET key == GeneratedKey(campaign_data.campaign_clean, product,
                                GeneratedFilename)
        IN /\ key \in DOMAIN s3 /\ s3[key] = "generated"
           /\ Candidates = {} =>
                 \A o \in ResolveOutcomes :
                    LET later == ensure_asset_in_s3(s3, AUTO, {}, start_folder,
                                    campaign_data.campaign_clean, product, o)
                    IN o.list /\ o.presign =>
                          /\ later.exit = 4 /\ ~later.raised
                          /\ later.ret = Some(key)
                          /\ ~needs_generation(later.ret)
                          /\ later.puts = <<>> /\ later.s3 = s3

\* C31 witness: the image of the second product has just been generated and
\* linked, with a file staged for the first product only
C31_Witness ==
    /\ pc = "compose" /\ product_index = 1
    /\ generated.called /\ generated.presign
    /\ Candidates = {} /\ start_folder # <<>>

\* C32: a link returned through priority 4 for a product refers to the
\* object stored by the generation client for this campaign and this
\* product, generated/<campaign>_<product>_hero.jpg.
C32_OwnGeneratedAssetOnly ==
    resolved.exit = 4 /\ Truthy(resolved.ret) =>
        resolved.ret[1] = GeneratedKey(campaign_data.campaign_clean, product,
                                       GeneratedFilename)

\* the seconds slept after the first n answers, all pending or processing
RECURSIVE SleptSoFar(_)
SleptSoFar(n) == IF n = 0 THEN 0 ELSE sleep_time(n) + SleptSoFar(n - 1)

\* every answer so far was pending or processing and no request took any
\* time: the clock shows the sleeps and nothing else
Instantaneous ==
    only_waiting /\ job_result \in {"none", "timeout"}
    /\ elapsed = SleptSoFar(poll_count)

\* the elapsed seconds at which the requests of such a wait leave
RequestTimes == <<0, 3, 8, 13, 23, 33, 48, 63, 78, 93, 108>>

\* C33: when the status requests take no time and every answer is pending
\* or processing, the k-th request leaves at the k-th of the elapsed times
\* 0, 3, 8, 13, 23, 33, 48, 63, 78, 93, 108; there are 11 requests and no
\* more; the timeout is reported at 123 seconds, at most one interval past
\* the budget, without a request past it.
C33_InstantaneousSchedule ==
    /\ [](Instantaneous =>
            /\ poll_count <= 11
            /\ pc \in {"poll", "await"} /\ poll_count <= 10 =>
                  elapsed = RequestTimes[poll_count + 1]
            /\ pc = "await" => poll_count <= 10 /\ elapsed < max_wait
            /\ pc = "poll" /\ poll_count = 11 => elapsed = 123
            /\ job_result = "timeout" =>
                  /\ poll_count = 11 /\ elapsed = 123
                  /\ elapsed - max_wait <= 15)
    /\ [][pc = "poll" /\ Instantaneous =>
            IF poll_count <= 10
            THEN pc' = "await" /\ elapsed' = elapsed
            ELSE pc' = "main_check" /\ job_result' = "timeout" /\ ~success']_vars

\* C33 witness: eleven requests, all answered at once with pending or
\* processing, and the timeout reported at 123 seconds
C33_Witness ==
    /\ Instantaneous /\ job_result = "timeout"
    /\ poll_count = 11 /\ elapsed = 123 /\ pc = "main_check"

\* C34: a status request leaves only with the clock below the budget, and
\* every turn of the polling loop that does not end the wait moves the clock
\* on by 3 seconds or more, so that the turns of one wait are bounded; every
\* wait ends with a completed job, a failure or a timeout, and the run ends.
C34_PollingAndRunTerminate ==
    /\ [](pc = "await" => elapsed < max_wait)
    /\ [][pc = "await" /\ pc' = "poll" => elapsed' >= elapsed + 3]_vars
    /\ [][pc = "poll" => pc' \in {"await", "main_check"}]_vars
    /\ (pc \in {"poll", "await"}) ~> (pc \in {"download", "main_check"})
    /\ <>(pc = "done" /\ main_result \in {"True", "False"})

\* C34 witness: a wait that saw answers of several kinds, a transport error
\* among them, has ended with a timeout
C34_Witness ==
    /\ pc = "main_check" /\ job_result = "timeout"
    /\ ~only_waiting /\ ~only_errors /\ poll_count >= 3

\* the files of the output folder of the product being processed
ProductFiles == {f \in output_files : f.product = product}

\* C35: when the download loop of a job has returned, the output folder of
\* the product holds as many files as downloads were counted.
C35_OneFilePerCountedDownload ==
    pc = "main_check" /\ asset_data # <<>> =>
        Cardinality(ProductFiles) = success_count

====
